---- MODULE Spec2Model ----
(***************************************************************************)
(* Model of joystick_drawer.c: a Linux input handler that binds to a       *)
(* joystick-class device and re-emits its events on a virtual mouse and a  *)
(* virtual keyboard.  The state is the module's globals plus the part of   *)
(* the input core the module's calls act on (which devices, handler and    *)
(* handles are registered, which handle records are still allocated).      *)
(***************************************************************************)
EXTENDS Integers, Sequences, FiniteSets, TLC

(* ------------------------------ bounds --------------------------------- *)
\* handle records kzalloc'ed during one module lifetime
MaxHandles == 2
\* events delivered during one module lifetime
MaxEvents == 2

(* --------------------------- program constants ------------------------- *)
center == 128
JOYSTICK_ID_ANY == -1
SENSITIVITY_DEFAULT == 5

(* ------------------------------ input sets ----------------------------- *)
Products == {1, 2}
JoystickIds == {JOYSTICK_ID_ANY} \cup Products
Sensitivities == {-5, SENSITIVITY_DEFAULT}
SensitivitiesWide == {-5, -1, 0, 1, SENSITIVITY_DEFAULT, 10}
AxisValues == {0, 96, 97, 122, 125, 127, 128, 129, 131, 134, 143, 159, 160, 255}
KeyValues == {0, 1}
AbsCodes == {"ABS_X", "ABS_Y", "ABS_Z"}
KeyCodes == {"BTN_TL", "BTN_B", "BTN_X", "BTN_Y", "BTN_A", "BTN_TR"}

Ev(t, c, v) == [type |-> t, code |-> c, value |-> v]

\* every event the translator is exercised with
EventsWide ==
    {Ev("EV_ABS", c, v) : c \in {"ABS_X", "ABS_Y"}, v \in AxisValues}
      \cup {Ev("EV_ABS", "ABS_Z", 160)}
      \cup {Ev("EV_KEY", c, v) : c \in KeyCodes, v \in KeyValues}
      \cup {Ev("EV_MSC", "MSC_SCAN", 1), Ev("EV_REL", "REL_X", 3)}

\* the events used while exploring the lifecycle
EventsLife ==
    {Ev("EV_ABS", "ABS_X", 160), Ev("EV_KEY", "BTN_B", 1), Ev("EV_ABS", "ABS_Z", 160)}

InitFailures == {"none", "mouse_alloc", "mouse_reg", "kbd_alloc", "kbd_reg", "handler_reg"}
ConnectOutcomes == {"ok", "alloc_fail", "reg_fail", "open_fail"}

(* ------------------------------- state --------------------------------- *)
VARIABLES
    modState,          \* "unloaded" | "loaded" | "failed" (init returned an error)
    joystick_id,       \* module parameter
    sensitivity,       \* module parameter
    virtual_mouse,     \* "NULL" or "PTR": the global pointer
    virtual_keyboard,  \* "NULL" or "PTR": the global pointer
    mouseDev,          \* input core: "none" | "registered" | "released" | "freed"
    kbdDev,            \* input core: "none" | "registered" | "released" | "freed"
    handlerReg,        \* input core: joystick_handler is registered
    joystick_handle,   \* the global pointer: 0 (NULL) or the index of a handle record
    handles,           \* every handle record kzalloc'ed so far, in allocation order
    calls,             \* the input-core / allocator calls made by the last callback
    ret,               \* what the last callback returned
    lastCall,          \* the last callback and its arguments
    createRet,         \* what create_virtual_devices returned and left registered
    emitted,           \* the report/sync calls made by the last callback
    outlog,            \* every report/sync call made on the output devices, in order
    delivered,         \* every event delivered to joystick_event, in order
    inflight           \* the joystick_event calls that have reported and not yet
                       \* flushed: the handle they run for and the calls left

vars == <<modState, joystick_id, sensitivity, virtual_mouse, virtual_keyboard,
          mouseDev, kbdDev, handlerReg, joystick_handle, handles, calls, ret,
          lastCall, createRet, emitted, outlog, delivered, inflight>>

(* ------------------------- the event translator ------------------------ *)
\* C's int division: the quotient is truncated toward zero (b > 0 here)
CDivFloor(a, b) == a \div b
CDiv(a, b) == IF a >= 0 THEN a \div b ELSE -((-a) \div b)

scaled_value_clamped(value, sens) ==
    CDiv((value - center) * (IF sens < 1 THEN 1 ELSE IF sens > 10 THEN 10 ELSE sens), 32)
\* scaled_value = (value - center) * sensitivity / 32; the operands modelled
\* stay far inside the range of a 32-bit int, so no wrap-around is involved
scaled_value(value, sens) == CDiv((value - center) * sens, 32)

\* the calls the translator makes on an output device
input_report(dev, type, code, value) ==
    [op |-> "report", dev |-> dev, type |-> type, code |-> code, value |-> value]
input_sync(dev) ==
    [op |-> "sync", dev |-> dev, type |-> "EV_SYN", code |-> "SYN_REPORT", value |-> 0]

translate_swapped(type, code, value, sens) ==
    IF type = "EV_ABS" THEN
        CASE code = "ABS_X" ->
                <<input_report("virtual_mouse", "EV_REL", "REL_X", scaled_value(value, sens)),
                  input_sync("virtual_mouse")>>
          [] code = "ABS_Y" ->
                <<input_report("virtual_mouse", "EV_REL", "REL_Y", scaled_value(value, sens)),
                  input_sync("virtual_mouse")>>
          [] OTHER -> <<>>
    ELSE IF type = "EV_KEY" THEN
        CASE code = "BTN_TL" ->
                <<input_report("virtual_mouse", "EV_KEY", "BTN_LEFT", value),
                  input_sync("virtual_mouse")>>
          [] code = "BTN_B" ->
                <<input_report("virtual_keyboard", "EV_KEY", "KEY_E", value),
                  input_sync("virtual_keyboard")>>
          [] code = "BTN_X" ->
                <<input_report("virtual_keyboard", "EV_KEY", "KEY_B", value),
                  input_sync("virtual_keyboard")>>
          [] code = "BTN_Y" ->
                <<input_report("virtual_keyboard", "EV_KEY", "KEY_RIGHTBRACE", value),
                  input_sync("virtual_keyboard")>>
          [] code = "BTN_A" ->
                <<input_report("virtual_keyboard", "EV_KEY", "KEY_LEFTBRACE", value),
                  input_sync("virtual_keyboard")>>
          [] OTHER -> <<>>
    ELSE <<>>

translate_batched(type, code, value, sens) ==
    IF type = "EV_ABS" THEN
        CASE code = "ABS_X" ->
                <<input_report("virtual_mouse", "EV_REL", "REL_X", scaled_value(value, sens))>>
          [] code = "ABS_Y" ->
                <<input_report("virtual_mouse", "EV_REL", "REL_Y", scaled_value(value, sens)),
                  input_sync("virtual_mouse")>>
          [] OTHER -> <<>>
    ELSE IF type = "EV_KEY" THEN
        CASE code = "BTN_TL" ->
                <<input_report("virtual_mouse", "EV_KEY", "BTN_LEFT", value),
                  input_sync("virtual_mouse")>>
          [] code = "BTN_B" ->
                <<input_report("virtual_keyboard", "EV_KEY", "KEY_B", value),
                  input_sync("virtual_keyboard")>>
          [] code = "BTN_X" ->
                <<input_report("virtual_keyboard", "EV_KEY", "KEY_E", value),
                  input_sync("virtual_keyboard")>>
          [] code = "BTN_Y" ->
                <<input_report("virtual_keyboard", "EV_KEY", "KEY_RIGHTBRACE", value),
                  input_sync("virtual_keyboard")>>
          [] code = "BTN_A" ->
                <<input_report("virtual_keyboard", "EV_KEY", "KEY_LEFTBRACE", value),
                  input_sync("virtual_keyboard")>>
          [] OTHER -> <<>>
    ELSE <<>>

\* the body of joystick_event: the calls made for one (type, code, value)
translate(type, code, value, sens) ==
    IF type = "EV_ABS" THEN
        CASE code = "ABS_X" ->
                <<input_report("virtual_mouse", "EV_REL", "REL_X", scaled_value(value, sens)),
                  input_sync("virtual_mouse")>>
          [] code = "ABS_Y" ->
                <<input_report("virtual_mouse", "EV_REL", "REL_Y", scaled_value(value, sens)),
                  input_sync("virtual_mouse")>>
          [] OTHER -> <<>>
    ELSE IF type = "EV_KEY" THEN
        CASE code = "BTN_TL" ->
                <<input_report("virtual_mouse", "EV_KEY", "BTN_LEFT", value),
                  input_sync("virtual_mouse")>>
          [] code = "BTN_B" ->
                <<input_report("virtual_keyboard", "EV_KEY", "KEY_B", value),
                  input_sync("virtual_keyboard")>>
          [] code = "BTN_X" ->
                <<input_report("virtual_keyboard", "EV_KEY", "KEY_E", value),
                  input_sync("virtual_keyboard")>>
          [] code = "BTN_Y" ->
                <<input_report("virtual_keyboard", "EV_KEY", "KEY_RIGHTBRACE", value),
                  input_sync("virtual_keyboard")>>
          [] code = "BTN_A" ->
                <<input_report("virtual_keyboard", "EV_KEY", "KEY_LEFTBRACE", value),
                  input_sync("virtual_keyboard")>>
          [] OTHER -> <<>>
    ELSE <<>>

\* each call reaches the output device as it is made: the device's history
\* grows at its end
emit(log, effects) == log \o effects

(* ------------------------- the device matcher -------------------------- *)
accepts_either_axis(product, hasX, hasY, jid) ==
    /\ ~(jid # JOYSTICK_ID_ANY /\ product # jid)
    /\ (hasX \/ hasY)
\* the two tests at the head of joystick_connect: TRUE when neither returns
\* -ENODEV
accepts(product, hasX, hasY, jid) ==
    /\ ~(jid # JOYSTICK_ID_ANY /\ product # jid)
    /\ (hasX /\ hasY)

\* a handle record as the input core and the allocator see it
Handle(registered, open, freed) ==
    [registered |-> registered, open |-> open, freed |-> freed]

bind_leaky(outcome) ==
    CASE outcome = "alloc_fail" ->
            [calls |-> <<"kzalloc">>, ret |-> "-ENOMEM",
             allocated |-> FALSE, handle |-> Handle(FALSE, FALSE, FALSE), tracked |-> FALSE]
      [] outcome = "reg_fail" ->
            [calls |-> <<"kzalloc", "input_register_handle", "kfree">>,
             ret |-> "-EREGISTER",
             allocated |-> TRUE, handle |-> Handle(FALSE, FALSE, TRUE), tracked |-> FALSE]
      [] outcome = "open_fail" ->
            [calls |-> <<"kzalloc", "input_register_handle", "input_open_device", "kfree">>,
             ret |-> "-EOPEN",
             allocated |-> TRUE, handle |-> Handle(TRUE, FALSE, TRUE), tracked |-> FALSE]
      [] OTHER ->
            [calls |-> <<"kzalloc", "input_register_handle", "input_open_device">>,
             ret |-> "0",
             allocated |-> TRUE, handle |-> Handle(TRUE, TRUE, FALSE), tracked |-> TRUE]
bind_retries(outcome) ==
    CASE outcome = "alloc_fail" ->
            [calls |-> <<"kzalloc">>, ret |-> "-ENOMEM",
             allocated |-> FALSE, handle |-> Handle(FALSE, FALSE, FALSE), tracked |-> FALSE]
      [] outcome = "reg_fail" ->
            [calls |-> <<"kzalloc", "input_register_handle", "input_register_handle",
                         "kfree">>,
             ret |-> "-EREGISTER",
             allocated |-> TRUE, handle |-> Handle(FALSE, FALSE, TRUE), tracked |-> FALSE]
      [] outcome = "open_fail" ->
            [calls |-> <<"kzalloc", "input_register_handle", "input_open_device",
                         "input_unregister_handle", "kfree">>,
             ret |-> "-EOPEN",
             allocated |-> TRUE, handle |-> Handle(FALSE, FALSE, TRUE), tracked |-> FALSE]
      [] OTHER ->
            [calls |-> <<"kzalloc", "input_register_handle", "input_open_device">>,
             ret |-> "0",
             allocated |-> TRUE, handle |-> Handle(TRUE, TRUE, FALSE), tracked |-> TRUE]
\* the bind sequence of joystick_connect for an accepted candidate, by which
\* of its fallible steps fails: the calls made, the value returned, the record
\* as it is left, and whether joystick_handle is set to it
bind(outcome) ==
    CASE outcome = "alloc_fail" ->
            [calls |-> <<"kzalloc">>, ret |-> "-ENOMEM",
             allocated |-> FALSE, handle |-> Handle(FALSE, FALSE, FALSE), tracked |-> FALSE]
      [] outcome = "reg_fail" ->
            [calls |-> <<"kzalloc", "input_register_handle", "kfree">>,
             ret |-> "-EREGISTER",
             allocated |-> TRUE, handle |-> Handle(FALSE, FALSE, TRUE), tracked |-> FALSE]
      [] outcome = "open_fail" ->
            [calls |-> <<"kzalloc", "input_register_handle", "input_open_device",
                         "input_unregister_handle", "kfree">>,
             ret |-> "-EOPEN",
             allocated |-> TRUE, handle |-> Handle(FALSE, FALSE, TRUE), tracked |-> FALSE]
      [] OTHER ->
            [calls |-> <<"kzalloc", "input_register_handle", "input_open_device">>,
             ret |-> "0",
             allocated |-> TRUE, handle |-> Handle(TRUE, TRUE, FALSE), tracked |-> TRUE]

release_keeps_registration(h) ==
    [calls |-> <<"input_close_device", "kfree">>, handle |-> Handle(TRUE, FALSE, TRUE)]
release_leaks(h) ==
    [calls |-> <<"input_close_device", "input_unregister_handle">>,
     handle |-> Handle(FALSE, FALSE, FALSE)]
release_frees_first(h) ==
    [calls |-> <<"kfree", "input_close_device", "input_unregister_handle">>,
     handle |-> Handle(FALSE, FALSE, TRUE)]
\* the body of joystick_disconnect on a registered handle
release(h) ==
    [calls |-> <<"input_close_device", "input_unregister_handle", "kfree">>,
     handle |-> Handle(FALSE, FALSE, TRUE)]

\* the handles on the handler's list, in registration order
RegisteredHandles == {h \in 1..Len(handles) : handles[h].registered}
OpenHandles == {h \in 1..Len(handles) : handles[h].open}

release_all_skips(hs, from) == [calls |-> <<>>, handles |-> hs]
RECURSIVE release_all(_, _)
\* input_unregister_handler calls the handler's disconnect for every handle
\* still on its list
release_all(hs, from) ==
    IF from > Len(hs) THEN [calls |-> <<>>, handles |-> hs]
    ELSE LET rest == release_all(hs, from + 1) IN
         IF hs[from].registered
         THEN [calls |-> release(from).calls \o rest.calls,
               handles |-> [rest.handles EXCEPT ![from] = release(from).handle]]
         ELSE rest

(* ----------------------- the virtual output factory -------------------- *)
Outputs(err, vm, vk, md, kd, cs) ==
    [err |-> err, virtual_mouse |-> vm, virtual_keyboard |-> vk,
     mouseDev |-> md, kbdDev |-> kd, calls |-> cs]

create_virtual_devices_no_unwind(fail) ==
    CASE fail = "mouse_alloc" ->
            Outputs("-ENOMEM", "NULL", "NULL", "none", "none",
                    <<"input_allocate_device">>)
      [] fail = "mouse_reg" ->
            Outputs("-EREGISTER", "PTR", "NULL", "freed", "none",
                    <<"input_allocate_device", "input_register_device(mouse)",
                      "input_free_device(mouse)">>)
      [] fail = "kbd_alloc" ->
            Outputs("-ENOMEM", "PTR", "NULL", "registered", "none",
                    <<"input_allocate_device", "input_register_device(mouse)",
                      "input_allocate_device">>)
      [] fail = "kbd_reg" ->
            Outputs("-EREGISTER", "PTR", "PTR", "registered", "freed",
                    <<"input_allocate_device", "input_register_device(mouse)",
                      "input_allocate_device", "input_register_device(keyboard)",
                      "input_free_device(keyboard)">>)
      [] OTHER ->
            Outputs("0", "PTR", "PTR", "registered", "registered",
                    <<"input_allocate_device", "input_register_device(mouse)",
                      "input_allocate_device", "input_register_device(keyboard)">>)
\* create_virtual_devices, entered with both globals NULL, by which of its
\* four fallible steps fails: the value returned, the two globals and the two
\* devices as they are left, and the calls made
create_virtual_devices(fail) ==
    CASE fail = "mouse_alloc" ->
            Outputs("-ENOMEM", "NULL", "NULL", "none", "none",
                    <<"input_allocate_device">>)
      [] fail = "mouse_reg" ->
            \* err_free_mouse: the pointer is left as it was
            Outputs("-EREGISTER", "PTR", "NULL", "freed", "none",
                    <<"input_allocate_device", "input_register_device(mouse)",
                      "input_free_device(mouse)">>)
      [] fail = "kbd_alloc" ->
            \* err_unregister_mouse
            Outputs("-ENOMEM", "NULL", "NULL", "released", "none",
                    <<"input_allocate_device", "input_register_device(mouse)",
                      "input_allocate_device", "input_unregister_device(mouse)">>)
      [] fail = "kbd_reg" ->
            \* err_free_keyboard, falling through to err_unregister_mouse
            Outputs("-EREGISTER", "NULL", "PTR", "released", "freed",
                    <<"input_allocate_device", "input_register_device(mouse)",
                      "input_allocate_device", "input_register_device(keyboard)",
                      "input_free_device(keyboard)", "input_unregister_device(mouse)">>)
      [] OTHER ->
            Outputs("0", "PTR", "PTR", "registered", "registered",
                    <<"input_allocate_device", "input_register_device(mouse)",
                      "input_allocate_device", "input_register_device(keyboard)">>)

\* input_unregister_device on a device: a registered device leaves the input
\* core and is released; on a device already released or freed the call acts on
\* freed memory, which the model keeps visible as "double_release"
unregistered(dev) ==
    CASE dev = "registered" -> "released"
      [] dev \in {"released", "freed", "double_release"} -> "double_release"
      [] OTHER -> dev

destroy_outputs_keeps_mouse(o) ==
    [o EXCEPT !.virtual_keyboard = "NULL",
              !.kbdDev = IF o.virtual_keyboard # "NULL" THEN unregistered(o.kbdDev) ELSE o.kbdDev,
              !.calls = IF o.virtual_keyboard # "NULL"
                        THEN <<"input_unregister_device(keyboard)">> ELSE <<>>]
destroy_outputs_no_null(o) ==
    [o EXCEPT !.kbdDev = IF o.virtual_keyboard # "NULL" THEN unregistered(o.kbdDev) ELSE o.kbdDev,
              !.mouseDev = IF o.virtual_mouse # "NULL" THEN unregistered(o.mouseDev) ELSE o.mouseDev,
              !.calls = (IF o.virtual_keyboard # "NULL"
                         THEN <<"input_unregister_device(keyboard)">> ELSE <<>>)
                        \o (IF o.virtual_mouse # "NULL"
                            THEN <<"input_unregister_device(mouse)">> ELSE <<>>)]
destroy_outputs_keeps_keyboard(o) ==
    [o EXCEPT !.virtual_mouse = "NULL",
              !.mouseDev = IF o.virtual_mouse # "NULL" THEN unregistered(o.mouseDev) ELSE o.mouseDev,
              !.calls = IF o.virtual_mouse # "NULL"
                        THEN <<"input_unregister_device(mouse)">> ELSE <<>>]
\* the unregister-if-present sequence shared by the error path of
\* joystick_drawer_init and by joystick_drawer_exit
destroy_outputs(o) ==
    [o EXCEPT !.virtual_keyboard = "NULL",
              !.virtual_mouse = "NULL",
              !.kbdDev = IF o.virtual_keyboard # "NULL" THEN unregistered(o.kbdDev) ELSE o.kbdDev,
              !.mouseDev = IF o.virtual_mouse # "NULL" THEN unregistered(o.mouseDev) ELSE o.mouseDev,
              !.calls = (IF o.virtual_keyboard # "NULL"
                         THEN <<"input_unregister_device(keyboard)">> ELSE <<>>)
                        \o (IF o.virtual_mouse # "NULL"
                            THEN <<"input_unregister_device(mouse)">> ELSE <<>>)]

(* ------------------------------- actions ------------------------------- *)
Init ==
    /\ modState = "unloaded"
    /\ joystick_id = JOYSTICK_ID_ANY
    /\ sensitivity = SENSITIVITY_DEFAULT
    /\ virtual_mouse = "NULL"
    /\ virtual_keyboard = "NULL"
    /\ mouseDev = "none"
    /\ kbdDev = "none"
    /\ handlerReg = FALSE
    /\ joystick_handle = 0
    /\ handles = <<>>
    /\ calls = <<>>
    /\ ret = "0"
    /\ lastCall = [fn |-> "none"]
    /\ createRet = [err |-> "unset", mouseDev |-> "none", kbdDev |-> "none"]
    /\ emitted = <<>>
    /\ outlog = <<>>
    /\ delivered = <<>>
    /\ inflight = {}

\* insmod: the module image is loaded with its statics at their initial values
\* and the parameters given on the command line, then joystick_drawer_init
\* runs; fail names the step that fails, if any
joystick_drawer_init(jid, sens, fail) ==
    /\ modState \in {"unloaded", "failed"}
    /\ LET created == create_virtual_devices(fail)
           unwound == destroy_outputs(created)
       IN  /\ createRet' = [err |-> created.err, mouseDev |-> created.mouseDev,
                            kbdDev |-> created.kbdDev]
           /\ IF created.err # "0" THEN
                   /\ modState' = "failed"
                   /\ ret' = created.err
                   /\ calls' = created.calls
                   /\ virtual_mouse' = created.virtual_mouse
                   /\ virtual_keyboard' = created.virtual_keyboard
                   /\ mouseDev' = created.mouseDev
                   /\ kbdDev' = created.kbdDev
                   /\ handlerReg' = FALSE
              ELSE IF fail = "handler_reg" THEN
                   /\ modState' = "failed"
                   /\ ret' = "-EREGISTER"
                   /\ calls' = created.calls \o <<"input_register_handler">> \o unwound.calls
                   /\ virtual_mouse' = unwound.virtual_mouse
                   /\ virtual_keyboard' = unwound.virtual_keyboard
                   /\ mouseDev' = unwound.mouseDev
                   /\ kbdDev' = unwound.kbdDev
                   /\ handlerReg' = FALSE
              ELSE
                   /\ modState' = "loaded"
                   /\ ret' = "0"
                   /\ calls' = created.calls \o <<"input_register_handler">>
                   /\ virtual_mouse' = created.virtual_mouse
                   /\ virtual_keyboard' = created.virtual_keyboard
                   /\ mouseDev' = created.mouseDev
                   /\ kbdDev' = created.kbdDev
                   /\ handlerReg' = TRUE
    /\ joystick_id' = jid
    /\ sensitivity' = sens
    /\ joystick_handle' = 0
    /\ handles' = <<>>
    /\ lastCall' = [fn |-> "joystick_drawer_init", fail |-> fail]
    /\ emitted' = <<>>
    /\ outlog' = <<>>
    /\ delivered' = <<>>
    /\ inflight' = {}

\* rmmod: joystick_drawer_exit
joystick_drawer_exit ==
    /\ modState = "loaded"
    /\ LET gone == release_all(handles, 1)
           unwound == destroy_outputs(Outputs("0", virtual_mouse, virtual_keyboard,
                                              mouseDev, kbdDev, <<>>))
       IN  /\ handles' = gone.handles
           /\ calls' = <<"input_unregister_handler">> \o gone.calls \o unwound.calls
           /\ virtual_mouse' = unwound.virtual_mouse
           /\ virtual_keyboard' = unwound.virtual_keyboard
           /\ mouseDev' = unwound.mouseDev
           /\ kbdDev' = unwound.kbdDev
    /\ handlerReg' = FALSE
    /\ modState' = "unloaded"
    /\ ret' = "0"
    /\ lastCall' = [fn |-> "joystick_drawer_exit", registered |-> RegisteredHandles]
    /\ emitted' = <<>>
    /\ UNCHANGED <<joystick_id, sensitivity, joystick_handle, createRet, outlog, delivered,
                   inflight>>

joystick_connect_alloc_first(product, hasX, hasY, outcome) ==
    /\ handlerReg
    /\ lastCall' = [fn |-> "joystick_connect", product |-> product, hasX |-> hasX,
                    hasY |-> hasY, jid |-> joystick_id, tracked |-> joystick_handle,
                    nhandles |-> Len(handles), registered |-> RegisteredHandles]
    /\ emitted' = <<>>
    /\ IF ~accepts(product, hasX, hasY, joystick_id) THEN
           /\ Len(handles) < MaxHandles
           /\ calls' = <<"kzalloc">>
           /\ ret' = "-ENODEV"
           /\ handles' = Append(handles, Handle(FALSE, FALSE, FALSE))
           /\ UNCHANGED joystick_handle
       ELSE LET b == bind(outcome) IN
           /\ b.allocated => Len(handles) < MaxHandles
           /\ calls' = b.calls
           /\ ret' = b.ret
           /\ handles' = IF b.allocated THEN Append(handles, b.handle) ELSE handles
           /\ joystick_handle' = IF b.tracked THEN Len(handles) + 1 ELSE joystick_handle
    /\ UNCHANGED <<modState, joystick_id, sensitivity, virtual_mouse, virtual_keyboard,
                   mouseDev, kbdDev, handlerReg, createRet, outlog, delivered, inflight>>

\* the input core offers a candidate device (product identity, ABS_X and ABS_Y
\* capability) to the registered handler; outcome names the step of the bind
\* sequence that fails, if any
joystick_connect(product, hasX, hasY, outcome) ==
    /\ handlerReg
    /\ lastCall' = [fn |-> "joystick_connect", product |-> product, hasX |-> hasX,
                    hasY |-> hasY, jid |-> joystick_id, tracked |-> joystick_handle,
                    nhandles |-> Len(handles), registered |-> RegisteredHandles]
    /\ emitted' = <<>>
    /\ IF ~accepts(product, hasX, hasY, joystick_id) THEN
           /\ calls' = <<>>
           /\ ret' = "-ENODEV"
           /\ UNCHANGED <<handles, joystick_handle>>
       ELSE LET b == bind(outcome) IN
           /\ b.allocated => Len(handles) < MaxHandles
           /\ calls' = b.calls
           /\ ret' = b.ret
           /\ handles' = IF b.allocated THEN Append(handles, b.handle) ELSE handles
           /\ joystick_handle' = IF b.tracked THEN Len(handles) + 1 ELSE joystick_handle
    /\ UNCHANGED <<modState, joystick_id, sensitivity, virtual_mouse, virtual_keyboard,
                   mouseDev, kbdDev, handlerReg, createRet, outlog, delivered, inflight>>

\* the input core reports that the device behind handle h is gone
joystick_disconnect(h) ==
    /\ handlerReg
    /\ h \in RegisteredHandles
    \* the input core does not run a device's disconnect during its event
    /\ \A f \in inflight : f.handle # h
    /\ handles' = [handles EXCEPT ![h] = release(h).handle]
    /\ calls' = release(h).calls
    /\ ret' = "0"
    /\ lastCall' = [fn |-> "joystick_disconnect", handle |-> h, tracked |-> joystick_handle,
                    registered |-> RegisteredHandles]
    /\ emitted' = <<>>
    /\ UNCHANGED <<modState, joystick_id, sensitivity, virtual_mouse, virtual_keyboard,
                   mouseDev, kbdDev, handlerReg, joystick_handle, createRet, outlog,
                   delivered, inflight>>

\* the input core delivers one event of a device whose handle is open
joystick_event(e) ==
    /\ handlerReg
    /\ OpenHandles # {}
    /\ Len(delivered) < MaxEvents
    /\ LET effects == translate(e.type, e.code, e.value, sensitivity) IN
           /\ emitted' = effects
           /\ outlog' = emit(outlog, effects)
    /\ delivered' = Append(delivered, [type |-> e.type, code |-> e.code,
                                       value |-> e.value, sens |-> sensitivity])
    /\ calls' = <<>>
    /\ ret' = "0"
    /\ lastCall' = [fn |-> "joystick_event", type |-> e.type, code |-> e.code,
                    value |-> e.value, sens |-> sensitivity]
    /\ UNCHANGED <<modState, joystick_id, sensitivity, virtual_mouse, virtual_keyboard,
                   mouseDev, kbdDev, handlerReg, joystick_handle, handles, createRet,
                   inflight>>

\* joystick_event for the device behind handle h, up to and including its
\* first call on an output device; the input core serializes the callbacks of
\* one device, so h has no other event running
joystick_event_enter(h, e) ==
    /\ handlerReg
    /\ h \in OpenHandles
    /\ \A f \in inflight : f.handle # h
    /\ Len(delivered) < MaxEvents
    /\ LET effects == translate(e.type, e.code, e.value, sensitivity) IN
           IF effects = <<>> THEN
               /\ emitted' = <<>>
               /\ UNCHANGED <<outlog, inflight>>
           ELSE
               /\ emitted' = <<Head(effects)>>
               /\ outlog' = emit(outlog, <<Head(effects)>>)
               /\ inflight' = inflight \cup {[handle |-> h, rest |-> Tail(effects)]}
    /\ delivered' = Append(delivered, [type |-> e.type, code |-> e.code,
                                       value |-> e.value, sens |-> sensitivity])
    /\ calls' = <<>>
    /\ ret' = "0"
    /\ lastCall' = [fn |-> "joystick_event_enter", handle |-> h, type |-> e.type,
                    code |-> e.code, value |-> e.value, sens |-> sensitivity]
    /\ UNCHANGED <<modState, joystick_id, sensitivity, virtual_mouse, virtual_keyboard,
                   mouseDev, kbdDev, handlerReg, joystick_handle, handles, createRet>>

\* the rest of a running joystick_event: its remaining calls, then its return
joystick_event_leave(h) ==
    /\ \E f \in inflight :
          /\ f.handle = h
          /\ emitted' = f.rest
          /\ outlog' = emit(outlog, f.rest)
          /\ inflight' = inflight \ {f}
    /\ calls' = <<>>
    /\ ret' = "0"
    /\ lastCall' = [fn |-> "joystick_event_leave", handle |-> h]
    /\ UNCHANGED <<modState, joystick_id, sensitivity, virtual_mouse, virtual_keyboard,
                   mouseDev, kbdDev, handlerReg, joystick_handle, handles, createRet,
                   delivered>>

\* both parameters are declared with mode 0644: while the module is loaded
\* root can write either through /sys/module/.../parameters
param_set(name, val) ==
    /\ modState = "loaded"
    /\ \/ name = "joystick_id" /\ val \in JoystickIds /\ val # joystick_id
          /\ joystick_id' = val /\ UNCHANGED sensitivity
       \/ name = "sensitivity" /\ val \in Sensitivities /\ val # sensitivity
          /\ sensitivity' = val /\ UNCHANGED joystick_id
    /\ lastCall' = [fn |-> "param_set", name |-> name]
    /\ calls' = <<>>
    /\ ret' = "0"
    /\ emitted' = <<>>
    /\ UNCHANGED <<modState, virtual_mouse, virtual_keyboard, mouseDev, kbdDev,
                   handlerReg, joystick_handle, handles, createRet, outlog, delivered,
                   inflight>>

Load == \E jid \in JoystickIds, sens \in Sensitivities, fail \in InitFailures :
            joystick_drawer_init(jid, sens, fail)
Unload == joystick_drawer_exit
Connect == \E product \in Products, hasX \in BOOLEAN, hasY \in BOOLEAN,
              outcome \in ConnectOutcomes :
            joystick_connect(product, hasX, hasY, outcome)
Disconnect == \E h \in 1..MaxHandles + 1 : joystick_disconnect(h)
Event == \E e \in EventsLife : joystick_event(e)
SetParam == \E name \in {"joystick_id", "sensitivity"}, val \in JoystickIds \cup Sensitivities :
            param_set(name, val)

Next == Load \/ Unload \/ Connect \/ Disconnect \/ Event \/ SetParam

Spec == Init /\ [][Next]_vars

\* the translator on its own: one module load that succeeds, one joystick, and
\* events drawn from the wide set
LoadOk == \E sens \in SensitivitiesWide :
            joystick_drawer_init(JOYSTICK_ID_ANY, sens, "none")
ConnectOne == joystick_handle = 0 /\ joystick_connect(1, TRUE, TRUE, "ok")
EventWide == \E e \in EventsWide : joystick_event(e)

NextEv == LoadOk \/ ConnectOne \/ EventWide

SpecEv == Init /\ [][NextEv]_vars

\* event delivery as the input core schedules it: the callbacks of one device
\* are serialized, those of different devices are not, and the module takes no
\* lock of its own
ConnectOk == \E product \in Products : joystick_connect(product, TRUE, TRUE, "ok")
EnterEvent == \E h \in 1..MaxHandles + 1, e \in EventsLife : joystick_event_enter(h, e)
LeaveEvent == \E h \in 1..MaxHandles + 1 : joystick_event_leave(h)

NextConc == LoadOk \/ ConnectOk \/ Disconnect \/ EnterEvent \/ LeaveEvent

SpecConc == Init /\ [][NextConc]_vars

(* ------------------------------- claims -------------------------------- *)

\* C1: in every reachable state at most one Binding is registered and open,
\* also when two compatible candidates are offered with no disconnect between
\* them.
AtMostOneBinding ==
    Cardinality({h \in 1..Len(handles) : handles[h].registered /\ handles[h].open}) <= 1

\* C2: create_virtual_devices returns success with both output devices
\* registered, or failure with neither registered, whichever step fails.
CreateIsAtomic ==
    /\ createRet.err = "0" =>
          createRet.mouseDev = "registered" /\ createRet.kbdDev = "registered"
    /\ createRet.err \notin {"0", "unset"} =>
          createRet.mouseDev # "registered" /\ createRet.kbdDev # "registered"
CreateFailedAfterMouseRegistered ==
    /\ createRet.err = "-EREGISTER"
    /\ createRet.kbdDev = "freed"
    /\ createRet.mouseDev = "released"

\* C3: when joystick_drawer_init returns failure, no handler, no pointer device
\* and no key-emitter device is registered.
InitFailureLeavesNothing ==
    modState = "failed" =>
        /\ ret # "0"
        /\ ~handlerReg
        /\ mouseDev # "registered"
        /\ kbdDev # "registered"
InitFailedAtHandler ==
    /\ modState = "failed"
    /\ lastCall.fn = "joystick_drawer_init"
    /\ lastCall.fail = "handler_reg"
    /\ createRet.err = "0"

\* C4: a failing bind sequence unwinds fully: a failed registration is followed
\* by the release of the record and nothing else; a failed open is followed by
\* unregister, then release; no registration remains and joystick_handle is
\* unchanged.
ConnectFailed ==
    lastCall.fn = "joystick_connect" /\ ret \notin {"0", "-ENODEV"}
ConnectUnwinds ==
    ConnectFailed =>
        /\ joystick_handle = lastCall.tracked
        /\ RegisteredHandles = lastCall.registered
        /\ OpenHandles \subseteq lastCall.registered
        /\ \A h \in (lastCall.nhandles + 1)..Len(handles) :
              handles[h].freed /\ ~handles[h].registered /\ ~handles[h].open
        /\ ret = "-EREGISTER" =>
              calls = <<"kzalloc", "input_register_handle", "kfree">>
        /\ ret = "-EOPEN" =>
              calls = <<"kzalloc", "input_register_handle", "input_open_device",
                        "input_unregister_handle", "kfree">>
        /\ ret = "-ENOMEM" => calls = <<"kzalloc">> /\ Len(handles) = lastCall.nhandles
OpenFailedWhileBound ==
    /\ ConnectFailed
    /\ ret = "-EOPEN"
    /\ lastCall.tracked # 0
    /\ Len(handles) = lastCall.nhandles + 1

\* C5: a candidate lacking ABS_X or ABS_Y is rejected with -ENODEV whatever
\* joystick_id is; a candidate whose product differs from a set joystick_id is
\* rejected with -ENODEV even with both axes; the bind sequence is entered
\* only when both tests pass.
ConnectRejected == ret = "-ENODEV" /\ calls = <<>> /\ Len(handles) = lastCall.nhandles
AcceptancePredicate ==
    lastCall.fn = "joystick_connect" =>
        /\ (~lastCall.hasX \/ ~lastCall.hasY) => ConnectRejected
        /\ (lastCall.jid # -1 /\ lastCall.product # lastCall.jid) => ConnectRejected
        /\ calls # <<>> =>
              /\ lastCall.hasX /\ lastCall.hasY
              /\ lastCall.jid = -1 \/ lastCall.product = lastCall.jid
        /\ ret = "-ENODEV" =>
              \/ ~lastCall.hasX \/ ~lastCall.hasY
              \/ lastCall.jid # -1 /\ lastCall.product # lastCall.jid
RejectedOnIdentityOnly ==
    /\ lastCall.fn = "joystick_connect"
    /\ lastCall.hasX /\ lastCall.hasY
    /\ lastCall.jid # -1 /\ lastCall.product # lastCall.jid
    /\ ret = "-ENODEV"

\* C6: after joystick_disconnect the Binding is closed, unregistered and its
\* record freed (if it was the only Binding none is left), and a compatible
\* candidate offered afterwards is not rejected and, its bind sequence
\* succeeding, becomes the registered, open, tracked Binding.
Compatible ==
    /\ lastCall.hasX /\ lastCall.hasY
    /\ lastCall.jid = -1 \/ lastCall.product = lastCall.jid
DisconnectReleasesAndRebinds ==
    /\ lastCall.fn = "joystick_disconnect" =>
          /\ handles[lastCall.handle] = Handle(FALSE, FALSE, TRUE)
          /\ calls = <<"input_close_device", "input_unregister_handle", "kfree">>
          /\ RegisteredHandles = lastCall.registered \ {lastCall.handle}
          /\ lastCall.registered = {lastCall.handle} =>
                RegisteredHandles = {} /\ OpenHandles = {}
    /\ (lastCall.fn = "joystick_connect" /\ Compatible) =>
          /\ ret # "-ENODEV"
          /\ ret = "0" =>
                /\ joystick_handle = Len(handles)
                /\ Len(handles) = lastCall.nhandles + 1
                /\ handles[joystick_handle] = Handle(TRUE, TRUE, FALSE)
                /\ RegisteredHandles = lastCall.registered \cup {joystick_handle}
ReboundAfterDisconnect ==
    /\ lastCall.fn = "joystick_connect"
    /\ lastCall.registered = {}
    /\ lastCall.tracked # 0
    /\ handles[lastCall.tracked] = Handle(FALSE, FALSE, TRUE)
    /\ ret = "0"
    /\ OpenHandles = {joystick_handle}

\* C7: while the module is loaded, joystick_handle is NULL or refers to a
\* Binding whose record has not been released; in particular it is NULL after
\* joystick_disconnect returns for the tracked Binding.
TrackedIsNullOrLive ==
    modState = "loaded" =>
        \/ joystick_handle = 0
        \/ ~handles[joystick_handle].freed

\* C8: an ABS_X (ABS_Y) event emits REL_X (REL_Y) = (v - 128) * s / 32 with the
\* quotient truncated toward zero: s=5 gives 0 at 128, 5 at 160, -5 at 96, 2 at
\* 143, and every deviation with |(v - 128) * s| < 32 gives 0 on both sides.
AxisEvent ==
    /\ lastCall.fn = "joystick_event"
    /\ lastCall.type = "EV_ABS"
    /\ lastCall.code \in {"ABS_X", "ABS_Y"}
AxisScaling ==
    AxisEvent =>
        LET v == lastCall.value
            s == lastCall.sens
            n == (v - 128) * s
            r == emitted[1].value
        IN  /\ Len(emitted) = 2
            /\ emitted[1].op = "report" /\ emitted[1].dev = "virtual_mouse"
            /\ emitted[1].type = "EV_REL"
            /\ emitted[1].code = (IF lastCall.code = "ABS_X" THEN "REL_X" ELSE "REL_Y")
            /\ emitted[2].op = "sync" /\ emitted[2].dev = "virtual_mouse"
            \* r is n / 32 rounded toward zero
            /\ n >= 0 => r >= 0 /\ 32 * r <= n /\ n < 32 * (r + 1)
            /\ n < 0 => r <= 0 /\ 32 * r >= n /\ n > 32 * (r - 1)
            /\ (n > -32 /\ n < 32) => r = 0
            /\ (s = 5 /\ v = 128) => r = 0
            /\ (s = 5 /\ v = 160) => r = 5
            /\ (s = 5 /\ v = 96) => r = -5
            /\ (s = 5 /\ v = 143) => r = 2
DeadbandBelowCenter ==
    /\ AxisEvent
    /\ lastCall.sens = 5
    /\ lastCall.value = 125
    /\ emitted[1].value = 0

\* C9: BTN_TL sets the pointer's BTN_LEFT, BTN_B/X/Y/A set the key-emitter's
\* KEY_B/KEY_E/KEY_RIGHTBRACE/KEY_LEFTBRACE, each to the event value and
\* followed by a flush of that device; every other (type, code) except the two
\* mapped axes makes no call on either device and is not an error.
ButtonTarget(code) ==
    CASE code = "BTN_TL" -> <<"virtual_mouse", "BTN_LEFT">>
      [] code = "BTN_B" -> <<"virtual_keyboard", "KEY_B">>
      [] code = "BTN_X" -> <<"virtual_keyboard", "KEY_E">>
      [] code = "BTN_Y" -> <<"virtual_keyboard", "KEY_RIGHTBRACE">>
      [] code = "BTN_A" -> <<"virtual_keyboard", "KEY_LEFTBRACE">>
MappedButton(type, code) ==
    type = "EV_KEY" /\ code \in {"BTN_TL", "BTN_B", "BTN_X", "BTN_Y", "BTN_A"}
MappedAxis(type, code) ==
    type = "EV_ABS" /\ code \in {"ABS_X", "ABS_Y"}
ButtonMapping ==
    lastCall.fn = "joystick_event" =>
        /\ ret = "0"
        /\ MappedButton(lastCall.type, lastCall.code) =>
              LET tgt == ButtonTarget(lastCall.code) IN
              emitted = << [op |-> "report", dev |-> tgt[1], type |-> "EV_KEY",
                            code |-> tgt[2], value |-> lastCall.value],
                           [op |-> "sync", dev |-> tgt[1], type |-> "EV_SYN",
                            code |-> "SYN_REPORT", value |-> 0] >>
        /\ (~MappedButton(lastCall.type, lastCall.code)
              /\ ~MappedAxis(lastCall.type, lastCall.code)) => emitted = <<>>
ButtonYThenIgnored ==
    /\ Len(delivered) = 2
    /\ delivered[1].type = "EV_KEY" /\ delivered[1].code = "BTN_Y" /\ delivered[1].value = 1
    /\ outlog[1].code = "KEY_RIGHTBRACE" /\ outlog[1].value = 1
    /\ lastCall.fn = "joystick_event"
    /\ lastCall.type = "EV_KEY" /\ lastCall.code = "BTN_TR"
    /\ emitted = <<>>

\* C10: the calls written to the output devices are exactly the per-event
\* translations of the delivered events, concatenated in arrival order:
\* nothing reordered, dropped, duplicated or batched across events.
TowardZero(n, d) == IF n < 0 THEN -((-n) \div d) ELSE n \div d
Expected(e) ==
    IF MappedAxis(e.type, e.code) THEN
        << [op |-> "report", dev |-> "virtual_mouse", type |-> "EV_REL",
            code |-> (IF e.code = "ABS_X" THEN "REL_X" ELSE "REL_Y"),
            value |-> TowardZero((e.value - 128) * e.sens, 32)],
           [op |-> "sync", dev |-> "virtual_mouse", type |-> "EV_SYN",
            code |-> "SYN_REPORT", value |-> 0] >>
    ELSE IF MappedButton(e.type, e.code) THEN
        << [op |-> "report", dev |-> ButtonTarget(e.code)[1], type |-> "EV_KEY",
            code |-> ButtonTarget(e.code)[2], value |-> e.value],
           [op |-> "sync", dev |-> ButtonTarget(e.code)[1], type |-> "EV_SYN",
            code |-> "SYN_REPORT", value |-> 0] >>
    ELSE <<>>
RECURSIVE ExpectedLog(_)
ExpectedLog(es) ==
    IF es = <<>> THEN <<>> ELSE Expected(Head(es)) \o ExpectedLog(Tail(es))
EffectsInArrivalOrder ==
    outlog = ExpectedLog(delivered)
TwoDevicesInOrder ==
    /\ Len(delivered) = 2
    /\ delivered[1].code = "BTN_B"
    /\ delivered[2].code = "ABS_X" /\ delivered[2].sens = -5
    /\ Len(outlog) = 4
    /\ outlog[1].dev = "virtual_keyboard"
    /\ outlog[3].dev = "virtual_mouse" /\ outlog[3].value = -5

\* C11: joystick_drawer_exit with an active Binding withdraws the handler,
\* then releases every Binding (close, unregister, free), then unregisters
\* both output devices; afterwards no handler, Binding or output device is
\* registered.
RECURSIVE Releases(_)
Releases(n) ==
    IF n = 0 THEN <<>>
    ELSE <<"input_close_device", "input_unregister_handle", "kfree">> \o Releases(n - 1)
TeardownOrder ==
    lastCall.fn = "joystick_drawer_exit" =>
        /\ calls = <<"input_unregister_handler">>
                     \o Releases(Cardinality(lastCall.registered))
                     \o <<"input_unregister_device(keyboard)",
                          "input_unregister_device(mouse)">>
        /\ ~handlerReg
        /\ \A h \in 1..Len(handles) :
              handles[h].freed /\ ~handles[h].registered /\ ~handles[h].open
        /\ mouseDev = "released" /\ kbdDev = "released"
        /\ virtual_mouse = "NULL" /\ virtual_keyboard = "NULL"
TornDownWhileBound ==
    /\ lastCall.fn = "joystick_drawer_exit"
    /\ Cardinality(lastCall.registered) = 1
    /\ Len(calls) = 6

\* C12: a Binding is open and tracked only after registration and then opening
\* have both succeeded (UNBOUND -> REGISTERING -> OPEN), and an open Binding
\* leaves only through close, then unregister, then release of the record
\* (OPEN -> CLOSING -> UNBOUND).
ClosingIn(cs) ==
    \E i \in 1..(Len(cs) - 2) :
        /\ cs[i] = "input_close_device"
        /\ cs[i + 1] = "input_unregister_handle"
        /\ cs[i + 2] = "kfree"
LifecycleState ==
    /\ \A h \in 1..Len(handles) :
          handles[h].open => handles[h].registered /\ ~handles[h].freed
    /\ (lastCall.fn = "joystick_connect" /\ joystick_handle # lastCall.tracked) =>
          /\ ret = "0"
          /\ handles[joystick_handle] = Handle(TRUE, TRUE, FALSE)
    /\ (lastCall.fn = "joystick_connect" /\ ret # "0") =>
          (Len(handles) > lastCall.nhandles => ~handles[Len(handles)].open)
LifecycleStep ==
    /\ \A h \in 1..Len(handles) :
          (handles[h].open /\ (h > Len(handles') \/ ~handles'[h].open)) =>
              /\ h <= Len(handles')
              /\ handles'[h] = Handle(FALSE, FALSE, TRUE)
              /\ ClosingIn(calls')
    /\ \A h \in 1..Len(handles') :
          (handles'[h].open /\ (h > Len(handles) \/ ~handles[h].open)) =>
              /\ h = Len(handles) + 1
              /\ calls' = <<"kzalloc", "input_register_handle", "input_open_device">>
              /\ joystick_handle' = h
BindingLifecycle == [](LifecycleState) /\ [][LifecycleStep]_vars
ClosedAfterOpen ==
    /\ lastCall.fn = "joystick_disconnect"
    /\ joystick_handle = lastCall.handle
    /\ handles[lastCall.handle] = Handle(FALSE, FALSE, TRUE)
    /\ ClosingIn(calls)

\* C13: with the callbacks of each device serialized by the input core and no
\* lock in the module, every flushed frame holds the one effect of one event:
\* between two reports on an output device there is a flush of that device.
OneEffectPerFrame ==
    \A i, j \in 1..Len(outlog) :
        (/\ i < j
         /\ outlog[i].op = "report" /\ outlog[j].op = "report"
         /\ outlog[i].dev = outlog[j].dev) =>
            \E k \in (i + 1)..(j - 1) :
                outlog[k].op = "sync" /\ outlog[k].dev = outlog[i].dev

\* C14: a joystick_connect that fails (allocation, registration or open)
\* leaves the handler and both output devices registered and every earlier
\* Binding as it was, makes each step at most once (no retry), and a compatible
\* candidate offered later can still be accepted.
Times(cs, c) == Cardinality({i \in 1..Len(cs) : cs[i] = c})
MatchingProduct == IF joystick_id = -1 THEN 1 ELSE joystick_id
FailureIsLocal ==
    ConnectFailed =>
        /\ modState = "loaded" /\ handlerReg
        /\ mouseDev = "registered" /\ kbdDev = "registered"
        /\ virtual_mouse = "PTR" /\ virtual_keyboard = "PTR"
        /\ joystick_handle = lastCall.tracked
        /\ \A h \in lastCall.registered : handles[h] = Handle(TRUE, TRUE, FALSE)
        /\ \A c \in {"kzalloc", "input_register_handle", "input_open_device"} :
              Times(calls, c) <= 1
        /\ Len(handles) < MaxHandles =>
              ENABLED (/\ joystick_connect(MatchingProduct, TRUE, TRUE, "ok")
                       /\ joystick_handle' = Len(handles) + 1
                       /\ ret' = "0")
AllocFailedBesideBinding ==
    /\ ConnectFailed
    /\ ret = "-ENOMEM"
    /\ lastCall.registered # {}
    /\ Len(handles) < MaxHandles

\* C15: joystick_id and sensitivity are immutable after start: no step taken
\* while the module stays loaded changes either of them.
ConfigImmutable ==
    [][(modState = "loaded" /\ modState' = "loaded") =>
          (joystick_id' = joystick_id /\ sensitivity' = sensitivity)]_vars

\* C16: the output teardown sequence (unregister the key-emitter if present,
\* then the pointer if present, clearing each reference) is safe with one or
\* both outputs absent, running it twice equals running it once, and over
\* every startup, error-unwind and shutdown no output device is unregistered
\* or freed twice.
SameOutputs(a, b) ==
    /\ a.virtual_mouse = b.virtual_mouse /\ a.virtual_keyboard = b.virtual_keyboard
    /\ a.mouseDev = b.mouseDev /\ a.kbdDev = b.kbdDev
\* present: the reference is set and the device registered; absent: NULL
PresentOrAbsent ==
    {Outputs("0", vm, vk, md, kd, <<>>) :
        vm \in {"NULL", "PTR"}, vk \in {"NULL", "PTR"},
        md \in {"none", "registered", "released"},
        kd \in {"none", "registered", "released"}}
WellFormed(o) ==
    /\ o.virtual_mouse = "PTR" <=> o.mouseDev = "registered"
    /\ o.virtual_keyboard = "PTR" <=> o.kbdDev = "registered"
IdempotentOn(o) ==
    LET once == destroy_outputs(o)
        twice == destroy_outputs(once)
    IN  /\ once.virtual_mouse = "NULL" /\ once.virtual_keyboard = "NULL"
        /\ once.mouseDev \notin {"registered", "double_release"}
        /\ once.kbdDev \notin {"registered", "double_release"}
        /\ Len(once.calls) = Cardinality({d \in {o.mouseDev, o.kbdDev} : d = "registered"})
             + (IF o.mouseDev = "registered" /\ o.kbdDev = "registered" THEN 1 ELSE 0)
        /\ twice.calls = <<>>
        /\ SameOutputs(twice, once)
Current == Outputs("0", virtual_mouse, virtual_keyboard, mouseDev, kbdDev, <<>>)
TeardownIdempotent ==
    /\ mouseDev # "double_release" /\ kbdDev # "double_release"
    /\ \A d \in {"mouse", "keyboard"} :
          Times(calls, "input_unregister_device(" \o d \o ")")
            + Times(calls, "input_free_device(" \o d \o ")") <= 1
    /\ modState \in {"loaded", "unloaded"} => WellFormed(Current) /\ IdempotentOn(Current)
    /\ (modState = "failed" /\ lastCall.fail = "handler_reg") =>
          WellFormed(Current) /\ IdempotentOn(Current)
    /\ lastCall.fn = "joystick_drawer_exit" =>
          \A o \in {p \in PresentOrAbsent : WellFormed(p)} : IdempotentOn(o)
TornDownTwiceIsOnce ==
    /\ lastCall.fn = "joystick_drawer_exit"
    /\ mouseDev = "released" /\ kbdDev = "released"
    /\ destroy_outputs(Current).calls = <<>>
    /\ SameOutputs(destroy_outputs(Current), Current)

\* C17: sensitivity is used as given: with sensitivity 0 every ABS_X / ABS_Y
\* event emits motion 0, and the motion emitted with sensitivity s is the exact
\* negation of the motion that sensitivity -s gives for the same raw value.
SensitivityUnvalidated ==
    AxisEvent =>
        LET v == lastCall.value
            s == lastCall.sens
            r == emitted[1].value
        IN  /\ s = 0 => r = 0
            /\ r = -TowardZero((v - 128) * (-s), 32)
            /\ (s < 0 /\ v > 128) => r <= 0
            /\ (s < 0 /\ v < 128) => r >= 0
NegativeSensitivityInverts ==
    /\ AxisEvent
    /\ lastCall.sens = -5
    /\ lastCall.value = 143
    /\ emitted[1].value = -2

\* C18: whenever the handler is registered or a Binding is registered or open,
\* both output devices are registered and their references are set: init
\* registers both outputs before the handler, and exit withdraws the handler
\* and releases every Binding before it unregisters an output.
First(cs, c) == IF \E i \in 1..Len(cs) : cs[i] = c
                THEN CHOOSE i \in 1..Len(cs) : cs[i] = c /\ \A j \in 1..(i - 1) : cs[j] # c
                ELSE Len(cs) + 1
OutputsOutliveHandler ==
    /\ (handlerReg \/ RegisteredHandles # {} \/ OpenHandles # {}) =>
          /\ mouseDev = "registered" /\ kbdDev = "registered"
          /\ virtual_mouse = "PTR" /\ virtual_keyboard = "PTR"
    /\ (lastCall.fn = "joystick_drawer_init"
          /\ First(calls, "input_register_handler") <= Len(calls)) =>
          /\ First(calls, "input_register_device(mouse)")
               < First(calls, "input_register_handler")
          /\ First(calls, "input_register_device(keyboard)")
               < First(calls, "input_register_handler")
    /\ lastCall.fn = "joystick_drawer_exit" =>
          /\ calls[1] = "input_unregister_handler"
          /\ \A i \in 1..Len(calls) :
                calls[i] \in {"input_close_device", "input_unregister_handle", "kfree"} =>
                    /\ i < First(calls, "input_unregister_device(keyboard)")
                    /\ i < First(calls, "input_unregister_device(mouse)")
    /\ lastCall.fn = "joystick_event" => handlerReg /\ OpenHandles # {}
TranslatedWhileOutputsLive ==
    /\ lastCall.fn = "joystick_event"
    /\ Len(emitted) = 2
    /\ emitted[1].dev = "virtual_keyboard"
    /\ handlerReg /\ OpenHandles # {}
    /\ kbdDev = "registered" /\ virtual_keyboard = "PTR"

\* C19: every handle record that was allocated is released exactly once: a
\* record is live exactly while it is registered, each callback frees exactly
\* the records that stop being live in it (one kfree each, after the one
\* unregister of a registered handle), and none is left once the module is
\* unloaded.
HandlesBefore == IF lastCall.fn = "joystick_connect" THEN lastCall.nhandles ELSE Len(handles)
ReleasedExactlyOnce ==
    /\ \A h \in 1..Len(handles) : handles[h].freed <=> ~handles[h].registered
    /\ modState = "unloaded" => \A h \in 1..Len(handles) : handles[h].freed
    /\ lastCall.fn \in {"joystick_connect", "joystick_disconnect", "joystick_drawer_exit"} =>
          LET freedBefore == (1..HandlesBefore) \ lastCall.registered
              freedNow == {h \in 1..Len(handles) : handles[h].freed}
              unregistered_now == lastCall.registered \ RegisteredHandles
          IN  /\ freedBefore \subseteq freedNow
              /\ Times(calls, "kfree") = Cardinality(freedNow \ freedBefore)
              /\ \A i \in 1..Len(calls) :
                    calls[i] = "input_unregister_handle" =>
                        i < Len(calls) /\ calls[i + 1] = "kfree"
              /\ lastCall.fn # "joystick_connect" =>
                    Times(calls, "input_unregister_handle") = Cardinality(unregistered_now)
    /\ lastCall.fn = "joystick_connect" =>
          /\ Times(calls, "kfree") = (IF ret \in {"-EREGISTER", "-EOPEN"} THEN 1 ELSE 0)
          /\ Times(calls, "input_unregister_handle") = (IF ret = "-EOPEN" THEN 1 ELSE 0)
    /\ lastCall.fn = "joystick_disconnect" =>
          /\ lastCall.handle \in lastCall.registered
          /\ Times(calls, "kfree") = 1
          /\ Times(calls, "input_unregister_handle") = 1
UnloadedWithEveryRecordFreed ==
    /\ lastCall.fn = "joystick_drawer_exit"
    /\ modState = "unloaded"
    /\ Len(handles) = 2
    /\ Cardinality(lastCall.registered) = 1
    /\ Times(calls, "kfree") = 1

\* C20: a joystick_connect that rejects its candidate with -ENODEV allocates
\* nothing, attempts no registration or open, and leaves the tracked binding,
\* the handle records, the output devices and the configuration unchanged.
RejectionStep ==
    (lastCall'.fn = "joystick_connect" /\ ret' = "-ENODEV") =>
        /\ calls' = <<>>
        /\ handles' = handles
        /\ joystick_handle' = joystick_handle
        /\ virtual_mouse' = virtual_mouse /\ virtual_keyboard' = virtual_keyboard
        /\ mouseDev' = mouseDev /\ kbdDev' = kbdDev
        /\ handlerReg' = handlerReg /\ modState' = modState
        /\ joystick_id' = joystick_id /\ sensitivity' = sensitivity
        /\ outlog' = outlog
RejectionChangesNothing == [][RejectionStep]_vars
RejectedWhileBound ==
    /\ lastCall.fn = "joystick_connect"
    /\ ret = "-ENODEV"
    /\ lastCall.hasX /\ ~lastCall.hasY
    /\ lastCall.tracked # 0
    /\ joystick_handle = lastCall.tracked
    /\ OpenHandles # {}

====
